---- MODULE Spec2Model ----
(***************************************************************************)
(* Model of go-annuaire (src/main.go): a command-line contact directory.   *)
(* A Go string is modelled as a sequence of one-character strings, so that *)
(* strings.ToLower and strings.TrimSpace are computed, not assumed.        *)
(***************************************************************************)
EXTENDS Naturals, Sequences, FiniteSets, TLC

(***************************************************************************)
(* Bounds of the model.                                                    *)
(***************************************************************************)
\* Largest directory the model builds (the code has no limit).
MaxContacts == 2

(***************************************************************************)
(* Strings.                                                                *)
(***************************************************************************)
\* A byte that is not valid UTF-8 on its own (for instance 0xFF).
BadByte == "\\xff"
\* The Unicode replacement rune U+FFFD.
Repl == "U+FFFD"

\* strings.ToLower on one character. A string holding a non-ASCII byte goes
\* through strings.Map, which turns an invalid byte into U+FFFD.
LowerChar(c) ==
    CASE c = "A" -> "a"
      [] c = "B" -> "b"
      [] c = BadByte -> Repl
      [] OTHER -> c

ToLower(s) == [i \in 1..Len(s) |-> LowerChar(s[i])]

IsSpace(c) == c = " "

RECURSIVE TrimLeft(_)
TrimLeft(s) ==
    IF s # <<>> /\ IsSpace(Head(s)) THEN TrimLeft(Tail(s)) ELSE s

RECURSIVE TrimRight(_)
TrimRight(s) ==
    IF s # <<>> /\ IsSpace(s[Len(s)])
    THEN TrimRight(SubSeq(s, 1, Len(s) - 1))
    ELSE s

TrimSpace(s) == TrimRight(TrimLeft(s))

\* The empty Go string "".
Vide == <<>>

(***************************************************************************)
(* The directory store: Contact, Annuaire and its methods.                 *)
(***************************************************************************)
Contact(nom, prenom, tel) == [Nom |-> nom, Prenom |-> prenom, Tel |-> tel]

\* The error values the methods return (nil, or one of three fmt.Errorf).
Nil == "nil"
DuplicateError == "DuplicateError"
ValidationError == "ValidationError"
NotFoundError == "NotFoundError"

\* Variant of rechercherContact that compares the names as they are.
rechercherContact_exact(a, nom) ==
    IF \E i \in 1..Len(a) : a[i].Nom = nom
    THEN CHOOSE i \in 1..Len(a) :
            /\ a[i].Nom = nom
            /\ \A j \in 1..(i - 1) : a[j].Nom # nom
    ELSE 0

\* Index of the first contact whose lower-cased name equals the lower-cased
\* argument; 0 stands for the nil pointer.
rechercherContact(a, nom) ==
    LET nomLower == ToLower(nom)
        hit(i) == ToLower(a[i].Nom) = nomLower
    IN  IF \E i \in 1..Len(a) : hit(i)
        THEN CHOOSE i \in 1..Len(a) : hit(i) /\ \A j \in 1..(i - 1) : ~hit(j)
        ELSE 0

\* Each method returns the directory it leaves behind and its error.
Retour(a, e) == [contacts |-> a, err |-> e]

\* Variant of ajouterContact that validates before it looks for a duplicate.
ajouterContact_validationFirst(a, nom, prenom, tel) ==
    IF nom = Vide THEN Retour(a, ValidationError)
    ELSE IF tel = Vide THEN Retour(a, ValidationError)
    ELSE IF rechercherContact(a, nom) # 0 THEN Retour(a, DuplicateError)
    ELSE Retour(Append(a, Contact(TrimSpace(nom), TrimSpace(prenom), TrimSpace(tel))),
                Nil)

\* Variant of ajouterContact that puts the new contact first.
ajouterContact_prepend(a, nom, prenom, tel) ==
    IF rechercherContact(a, nom) # 0 THEN Retour(a, DuplicateError)
    ELSE IF nom = Vide THEN Retour(a, ValidationError)
    ELSE IF tel = Vide THEN Retour(a, ValidationError)
    ELSE Retour(<<Contact(TrimSpace(nom), TrimSpace(prenom), TrimSpace(tel))>> \o a,
                Nil)

\* The duplicate check and the two emptiness checks read the arguments as
\* given; the contact stored holds them trimmed.
ajouterContact(a, nom, prenom, tel) ==
    IF rechercherContact(a, nom) # 0 THEN Retour(a, DuplicateError)
    ELSE IF nom = Vide THEN Retour(a, ValidationError)
    ELSE IF tel = Vide THEN Retour(a, ValidationError)
    ELSE Retour(Append(a, Contact(TrimSpace(nom), TrimSpace(prenom), TrimSpace(tel))),
                Nil)

\* Variant of supprimerContact that removes the last match.
supprimerContact_last(a, nom) ==
    LET nomLower == ToLower(nom)
        hit(i) == ToLower(a[i].Nom) = nomLower
    IN  IF \E i \in 1..Len(a) : hit(i)
        THEN LET i == CHOOSE k \in 1..Len(a) :
                        hit(k) /\ \A j \in (k + 1)..Len(a) : ~hit(j)
             IN  Retour(SubSeq(a, 1, i - 1) \o SubSeq(a, i + 1, Len(a)), Nil)
        ELSE Retour(a, NotFoundError)

\* append(a.Contacts[:i], a.Contacts[i+1:]...) at the first match.
supprimerContact(a, nom) ==
    LET nomLower == ToLower(nom)
        hit(i) == ToLower(a[i].Nom) = nomLower
    IN  IF \E i \in 1..Len(a) : hit(i)
        THEN LET i == CHOOSE k \in 1..Len(a) :
                        hit(k) /\ \A j \in 1..(k - 1) : ~hit(j)
             IN  Retour(SubSeq(a, 1, i - 1) \o SubSeq(a, i + 1, Len(a)), Nil)
        ELSE Retour(a, NotFoundError)

\* Variant of modifierContact that assigns both fields whatever the arguments.
modifierContact_overwrite(a, nom, nouveauPrenom, nouveauTel) ==
    LET i == rechercherContact(a, nom)
    IN  IF i = 0 THEN Retour(a, NotFoundError)
        ELSE Retour([a EXCEPT ![i] = [@ EXCEPT !.Prenom = TrimSpace(nouveauPrenom),
                                               !.Tel = TrimSpace(nouveauTel)]],
                    Nil)

\* Each field is assigned, trimmed, when its argument as given is not "".
modifierContact(a, nom, nouveauPrenom, nouveauTel) ==
    LET i == rechercherContact(a, nom)
    IN  IF i = 0 THEN Retour(a, NotFoundError)
        ELSE LET c1 == IF nouveauPrenom # Vide
                       THEN [a[i] EXCEPT !.Prenom = TrimSpace(nouveauPrenom)]
                       ELSE a[i]
                 c2 == IF nouveauTel # Vide
                       THEN [c1 EXCEPT !.Tel = TrimSpace(nouveauTel)]
                       ELSE c1
             IN  Retour([a EXCEPT ![i] = c2], Nil)

(***************************************************************************)
(* The snapshot file: encoding/json as the program uses it.                *)
(***************************************************************************)
\* json.Marshal writes a string as a JSON string "coerced to valid UTF-8":
\* an invalid byte is written as the escape for U+FFFD; a double quote is
\* written as the escape \"; any other character is written as itself.
EncodeChar(c) ==
    CASE c = "\"" -> "\\\""
      [] c = BadByte -> "\\ufffd"
      [] OTHER -> c

\* Variant of DecodeTok that leaves the escapes as written.
DecodeTok_raw(t) == t

\* json.Unmarshal reads the escapes back.

DecodeTok(t) ==
    CASE t = "\\\"" -> "\""
      [] t = "\\ufffd" -> Repl
      [] OTHER -> t

EncodeString(s) == [i \in 1..Len(s) |-> EncodeChar(s[i])]
DecodeString(s) == [i \in 1..Len(s) |-> DecodeTok(s[i])]

\* The document of a directory: one top-level field "contacts", each record
\* under the keys of the struct tags.
Marshal(a) ==
    [i \in 1..Len(a) |-> [nom |-> EncodeString(a[i].Nom),
                          prenom |-> EncodeString(a[i].Prenom),
                          tel |-> EncodeString(a[i].Tel)]]

Unmarshal(doc) ==
    [i \in 1..Len(doc) |-> Contact(DecodeString(doc[i].nom),
                                   DecodeString(doc[i].prenom),
                                   DecodeString(doc[i].tel))]

\* The file annuaire.json: absent, or holding a document.
NoFile == [existe |-> FALSE, contacts |-> <<>>]
FileOf(doc) == [existe |-> TRUE, contacts |-> doc]

\* Variant of chargerAnnuaire that always returns the empty directory.
chargerAnnuaire_fresh(f) == <<>>

\* A file this program wrote always reads and parses, so the two error
\* returns of chargerAnnuaire are not taken.

chargerAnnuaire(f) ==
    IF ~f.existe THEN <<>> ELSE Unmarshal(f.contacts)

\* os.WriteFile replaces the whole content.
sauvegarderAnnuaire(a, f) == FileOf(Marshal(a))

(***************************************************************************)
(* State.                                                                  *)
(***************************************************************************)
VARIABLES
    contacts,   \* Annuaire.Contacts of the directory the methods are called on
    avant,      \* Annuaire.Contacts before the last method call
    op,         \* the last method called
    args,       \* its arguments
    err,        \* the error it returned
    fichier,    \* the snapshot file annuaire.json
    pc,         \* where each invocation of main stands
    cmd,        \* the flags of each invocation
    mem,        \* the Annuaire each invocation holds in memory
    sortie,     \* the contacts each invocation printed
    sauve,      \* history: the directory last handed to sauvegarderAnnuaire
    attendu,    \* history: the successful mutations replayed in the order of their saves
    chevauche   \* history: an invocation started while another had loaded and not ended

storeVars == <<contacts, avant, op, args, err>>
mainVars == <<fichier, pc, cmd, mem, sortie, sauve, attendu, chevauche>>
vars == <<storeVars, mainVars>>

\* The invocations that may run.
Procs == {1, 2}

\* Arguments the methods are called with.
Noms == { <<>>, <<" ">>, <<"a">>, <<"A">>, <<" ", "a">>, <<"b">> }
Prenoms == { <<>>, <<" ">>, <<"j">> }
Tels == { <<>>, <<" ">>, <<"1">> }
\* Given names a contact is added with (modifierContact takes all of Prenoms).
PrenomsAjout == { <<>>, <<"j">> }

NoArgs == [nom |-> Vide, prenom |-> Vide, tel |-> Vide]
NoCmd == [action |-> "", nom |-> Vide, prenom |-> Vide, tel |-> Vide]

Init ==
    /\ contacts = <<>>
    /\ avant = <<>>
    /\ op = "none"
    /\ args = NoArgs
    /\ err = Nil
    /\ fichier = NoFile
    /\ pc = [p \in Procs |-> "idle"]
    /\ cmd = [p \in Procs |-> NoCmd]
    /\ mem = [p \in Procs |-> <<>>]
    /\ sortie = [p \in Procs |-> <<>>]
    /\ sauve = <<>>
    /\ attendu = <<>>
    /\ chevauche = FALSE

Appel(o, n, p, t, r) ==
    /\ avant' = contacts
    /\ op' = o
    /\ args' = [nom |-> n, prenom |-> p, tel |-> t]
    /\ contacts' = r.contacts
    /\ err' = r.err
    /\ UNCHANGED mainVars

\* The directory grows only up to MaxContacts; a call that fails is always taken.
Ajouter ==
    \E n \in Noms, p \in PrenomsAjout, t \in Tels :
        LET r == ajouterContact(contacts, n, p, t)
        IN  /\ Len(r.contacts) <= MaxContacts
            /\ Appel("ajouter", n, p, t, r)

Supprimer ==
    \E n \in Noms :
        Appel("supprimer", n, Vide, Vide, supprimerContact(contacts, n))

Modifier ==
    \E n \in Noms, p \in Prenoms, t \in Tels :
        Appel("modifier", n, p, t, modifierContact(contacts, n, p, t))

Next == Ajouter \/ Supprimer \/ Modifier

Spec == Init /\ [][Next]_vars

(***************************************************************************)
(* main: one invocation is  parse flags, load / switch on the action /     *)
(* save. The file is read in the first step and written in the last, so    *)
(* two invocations interleave at those points.                             *)
(***************************************************************************)
\* The flags the sequential invocations are given.
Actions == { "", "ajouter", "lister", "rechercher", "supprimer", "modifier", "autre" }
NomsCLI == { <<>>, <<"a">>, <<"b">>, <<BadByte>> }
PrenomsCLI == { <<>>, <<"j", "\"">> }
TelsCLI == { <<>>, <<"1">> }

\* The flags the concurrent invocations are given.
ActionsConc == { "ajouter", "supprimer" }
NomsConc == { <<"a">>, <<"b">> }
PrenomsConc == { <<>> }
TelsConc == { <<"1">> }

Ended(p) == pc[p] \in {"idle", "exit0", "exit1"}
Loaded(p) == pc[p] \in {"charge", "a_sauver"}

\* Lines 150-184: flag.Parse, the check that an action is given, and
\* chargerAnnuaire.
Demarrer(p, A, N, P, T) ==
    /\ Ended(p)
    /\ \E a \in A, n \in N, pr \in P, t \in T :
          /\ cmd' = [cmd EXCEPT ![p] = [action |-> a, nom |-> n, prenom |-> pr, tel |-> t]]
          /\ IF a = ""
             THEN /\ pc' = [pc EXCEPT ![p] = "exit1"]
                  /\ mem' = [mem EXCEPT ![p] = <<>>]
                  /\ UNCHANGED chevauche
             ELSE /\ pc' = [pc EXCEPT ![p] = "charge"]
                  /\ mem' = [mem EXCEPT ![p] = chargerAnnuaire(fichier)]
                  /\ chevauche' = (chevauche \/ \E q \in Procs \ {p} : Loaded(q))
    /\ sortie' = [sortie EXCEPT ![p] = <<>>]
    /\ UNCHANGED <<fichier, sauve, attendu, storeVars>>

\* What the switch of lines 187-273 leaves: the next position, the directory
\* in memory and what was printed of it.
Suite(next, a, out) == [pc |-> next, mem |-> a, sortie |-> out]

Switch(c, a) ==
    CASE c.action = "ajouter" ->
            IF c.nom = Vide \/ c.tel = Vide THEN Suite("exit1", a, <<>>)
            ELSE LET r == ajouterContact(a, c.nom, c.prenom, c.tel)
                 IN  IF r.err # Nil THEN Suite("exit1", r.contacts, <<>>)
                     ELSE Suite("a_sauver", r.contacts, <<>>)
      [] c.action = "lister" -> Suite("exit0", a, a)
      [] c.action = "rechercher" ->
            IF c.nom = Vide THEN Suite("exit1", a, <<>>)
            ELSE LET i == rechercherContact(a, c.nom)
                 IN  Suite("exit0", a, IF i = 0 THEN <<>> ELSE <<a[i]>>)
      [] c.action = "supprimer" ->
            IF c.nom = Vide THEN Suite("exit1", a, <<>>)
            ELSE LET r == supprimerContact(a, c.nom)
                 IN  IF r.err # Nil THEN Suite("exit1", r.contacts, <<>>)
                     ELSE Suite("a_sauver", r.contacts, <<>>)
      [] c.action = "modifier" ->
            IF c.nom = Vide THEN Suite("exit1", a, <<>>)
            ELSE IF c.prenom = Vide /\ c.tel = Vide THEN Suite("exit1", a, <<>>)
            ELSE LET r == modifierContact(a, c.nom, c.prenom, c.tel)
                 IN  IF r.err # Nil THEN Suite("exit1", r.contacts, <<>>)
                     ELSE Suite("a_sauver", r.contacts, <<>>)
      [] OTHER -> Suite("exit1", a, <<>>)

Traiter(p) ==
    /\ pc[p] = "charge"
    /\ LET r == Switch(cmd[p], mem[p])
       IN  /\ pc' = [pc EXCEPT ![p] = r.pc]
           /\ mem' = [mem EXCEPT ![p] = r.mem]
           /\ sortie' = [sortie EXCEPT ![p] = r.sortie]
    /\ UNCHANGED <<fichier, cmd, sauve, attendu, chevauche, storeVars>>

\* The mutation of command c applied to directory a by the store's methods.
Rejouer(c, a) ==
    CASE c.action = "ajouter" -> ajouterContact(a, c.nom, c.prenom, c.tel).contacts
      [] c.action = "supprimer" -> supprimerContact(a, c.nom).contacts
      [] c.action = "modifier" -> modifierContact(a, c.nom, c.prenom, c.tel).contacts
      [] OTHER -> a

\* sauvegarderAnnuaire after a successful mutation, then the message of
\* success and the end of main.
Sauvegarder(p) ==
    /\ pc[p] = "a_sauver"
    /\ fichier' = sauvegarderAnnuaire(mem[p], fichier)
    /\ pc' = [pc EXCEPT ![p] = "exit0"]
    /\ sauve' = mem[p]
    /\ attendu' = Rejouer(cmd[p], attendu)
    /\ UNCHANGED <<cmd, mem, sortie, chevauche, storeVars>>

\* Invocations one after another: a single process at a time.
DemarrerSeq == Demarrer(1, Actions, NomsCLI, PrenomsCLI, TelsCLI)
TraiterSeq == Traiter(1)
SauvegarderSeq == Sauvegarder(1)

NextSeq == DemarrerSeq \/ TraiterSeq \/ SauvegarderSeq

SpecSeq == Init /\ [][NextSeq]_vars

\* Two invocations that may interleave.
DemarrerConc == \E p \in Procs : Demarrer(p, ActionsConc, NomsConc, PrenomsConc, TelsConc)
TraiterConc == \E p \in Procs : Traiter(p)
SauvegarderConc == \E p \in Procs : Sauvegarder(p)

NextConc == DemarrerConc \/ TraiterConc \/ SauvegarderConc

SpecConc == Init /\ [][NextConc]_vars

(***************************************************************************)
(* Vocabulary of the properties.                                           *)
(***************************************************************************)
\* Two characters that are the same letter up to case.
FoldEq(c, d) == c = d \/ {c, d} = {"a", "A"} \/ {c, d} = {"b", "B"}

\* Equality of two strings under case-insensitive comparison.
CaseInsensitiveEq(s, t) ==
    /\ Len(s) = Len(t)
    /\ \A i \in 1..Len(s) : FoldEq(s[i], t[i])

\* Positions of the contacts of a whose name matches nom.
Matches(a, nom) == { i \in 1..Len(a) : CaseInsensitiveEq(a[i].Nom, nom) }

\* The first of them.
FirstMatch(a, nom) ==
    CHOOSE i \in Matches(a, nom) : \A j \in Matches(a, nom) : i <= j

\* b is a with the element at position k taken out.
RemovedAt(a, b, k) ==
    /\ Len(b) = Len(a) - 1
    /\ \A j \in 1..(k - 1) : b[j] = a[j]
    /\ \A j \in k..Len(b) : b[j] = a[j + 1]

(***************************************************************************)
(* Properties of the directory store.                                      *)
(***************************************************************************)
\* C1: at no point do two contacts of the directory have names that are
\* equal under case-insensitive comparison.
C1_Uniqueness ==
    \A i, j \in 1..Len(contacts) :
        i # j => ~CaseInsensitiveEq(contacts[i].Nom, contacts[j].Nom)

\* C2: whenever add succeeds, the contact it appended has a non-empty name
\* and a non-empty phone, both stored trimmed of surrounding whitespace.
C2_AddStoresNonEmpty ==
    (op = "ajouter" /\ err = Nil) =>
        LET c == contacts[Len(contacts)]
        IN  /\ Len(contacts) = Len(avant) + 1
            /\ c.Nom # Vide /\ c.Tel # Vide
            /\ c.Nom = TrimSpace(args.nom) /\ c.Tel = TrimSpace(args.tel)

\* C3 as stated: add with an empty name or an empty phone fails with
\* ValidationError, never with DuplicateError, and leaves the directory
\* unchanged.
C3_EmptyFieldIsValidationError ==
    (op = "ajouter" /\ (args.nom = Vide \/ args.tel = Vide)) =>
        (err = ValidationError /\ contacts = avant)

\* C3 amended: add with an empty name or an empty phone fails and leaves the
\* directory unchanged; the error is DuplicateError when the name matches a
\* stored contact case-insensitively (the duplicate check runs first) and
\* ValidationError otherwise.
C3_EmptyFieldRejected ==
    (op = "ajouter" /\ (args.nom = Vide \/ args.tel = Vide)) =>
        /\ contacts = avant
        /\ err = IF Matches(avant, args.nom) # {}
                 THEN DuplicateError
                 ELSE ValidationError

\* An add with an empty phone and the name of a stored contact was refused
\* as a duplicate.
C3_Witness ==
    /\ op = "ajouter" /\ args.tel = Vide /\ args.nom # Vide
    /\ err = DuplicateError /\ contacts = avant

\* C4: in a directory containing a contact named n, add with any name equal
\* to n under case-insensitive comparison fails with DuplicateError and
\* leaves the directory unchanged.
C4_AddRejectsDuplicates ==
    (op = "ajouter" /\ Matches(avant, args.nom) # {}) =>
        (err = DuplicateError /\ contacts = avant)

\* An add whose name differs from the stored one only by case was refused.
C4_Witness ==
    /\ op = "ajouter" /\ err = DuplicateError
    /\ \E i \in Matches(avant, args.nom) : avant[i].Nom # args.nom
    /\ args.tel # Vide

C6_UpdatePartial ==
    (op = "modifier") =>
        IF Matches(avant, args.nom) # {}
        THEN LET k == FirstMatch(avant, args.nom)
             IN  /\ err = Nil
                 /\ Len(contacts) = Len(avant)
                 /\ \A i \in 1..Len(avant) : i # k => contacts[i] = avant[i]
                 /\ contacts[k].Nom = avant[k].Nom
                 /\ contacts[k].Prenom =
                        IF args.prenom # Vide THEN TrimSpace(args.prenom)
                                              ELSE avant[k].Prenom
                 /\ contacts[k].Tel =
                        IF args.tel # Vide THEN TrimSpace(args.tel)
                                           ELSE avant[k].Tel
        ELSE err = NotFoundError /\ contacts = avant

\* An update with an empty phone gave the second of two contacts a given
\* name and kept its phone; the first contact was left alone.
C6_Witness ==
    /\ op = "modifier" /\ err = Nil /\ Len(avant) = 2
    /\ args.tel = Vide /\ args.prenom # Vide
    /\ contacts[2].Prenom # avant[2].Prenom /\ contacts[2].Prenom # Vide
    /\ contacts[2].Tel = avant[2].Tel /\ avant[2].Tel # Vide
    /\ contacts[1] = avant[1] /\ contacts[1].Nom # contacts[2].Nom

\* C7: no successful update turns a non-empty given_name or phone into the
\* empty string.
C7_UpdateNeverClears ==
    (op = "modifier" /\ err = Nil) =>
        \A i \in 1..Len(avant) :
            /\ avant[i].Prenom # Vide => contacts[i].Prenom # Vide
            /\ avant[i].Tel # Vide => contacts[i].Tel # Vide

(***************************************************************************)
(* Properties of the snapshot and of the invocations.                      *)
(***************************************************************************)
\* A string, and a directory, that holds no invalid UTF-8 byte.
ValidUTF8(s) == \A i \in 1..Len(s) : s[i] # BadByte

ValidDir(a) ==
    \A i \in 1..Len(a) :
        ValidUTF8(a[i].Nom) /\ ValidUTF8(a[i].Prenom) /\ ValidUTF8(a[i].Tel)

\* C8 as stated: load after save(D), with no other writer in between,
\* returns a directory equal to D, for any directory D.
C8_RoundTrip ==
    (pc[1] = "charge" /\ fichier.existe) => mem[1] = sauve

\* C8 amended: load after save(D), with no other writer in between, returns
\* a directory equal to D, for any directory D whose strings are valid UTF-8.
C8_RoundTripValidUTF8 ==
    (pc[1] = "charge" /\ fichier.existe /\ ValidDir(sauve)) => mem[1] = sauve

\* An invocation loaded back, equal, a saved directory of two contacts, one
\* of them with a given name that is written with an escape.
C8_Witness ==
    /\ pc[1] = "charge" /\ fichier.existe
    /\ Len(sauve) = 2 /\ ValidDir(sauve)
    /\ \E i \in 1..2 : sauve[i].Prenom = <<"j", "\"">>
    /\ mem[1] = sauve

\* What one step of an invocation does to the snapshot and prints of it.
C9_Step ==
    LET old == chargerAnnuaire(fichier)
        new == chargerAnnuaire(fichier')
        saves == pc[1] = "a_sauver" /\ pc'[1] = "exit0"
    IN  /\ (saves /\ cmd[1].action = "ajouter") =>
              (Len(new) = Len(old) + 1 /\ SubSeq(new, 1, Len(old)) = old)
        /\ (saves /\ cmd[1].action = "supprimer") =>
              \E k \in 1..Len(old) : RemovedAt(old, new, k)
        /\ (saves /\ cmd[1].action = "modifier") =>
              (Len(new) = Len(old) /\ \A i \in 1..Len(old) : new[i].Nom = old[i].Nom)
        /\ (saves /\ cmd[1].action \notin {"ajouter", "supprimer", "modifier"}) => FALSE
        /\ ~saves => fichier' = fichier
        /\ (pc[1] = "charge" /\ pc'[1] = "exit0" /\ cmd[1].action = "lister") =>
              sortie'[1] = old

\* C9: over sequential invocations, a successful add places the new contact
\* after all existing ones, update and delete keep the relative order of the
\* contacts that remain, search and list leave the snapshot alone, and list
\* prints the contacts in the snapshot's order.
C9_ListOrdering == [][C9_Step]_vars

\* A list invocation printed three contacts, b before a: the order of the
\* adds, not of the names.
C9_Witness ==
    /\ pc[1] = "exit0" /\ cmd[1].action = "lister"
    /\ Len(sortie[1]) = 3
    /\ sortie[1][1].Nom = <<"b">> /\ sortie[1][2].Nom = <<"a">>
    /\ sortie[1] = chargerAnnuaire(fichier)

\* C10: while no invocation has started before another that had loaded came
\* to its end, the snapshot holds every successful mutation, applied in the
\* order of the saves.
C10_NoLossWhenSequential ==
    ~chevauche => chargerAnnuaire(fichier) = attendu

\* Two interleaved adds both reported success, and the snapshot holds only
\* the contact of the one that saved last.
C10_LostUpdate ==
    /\ chevauche
    /\ \A p \in Procs : pc[p] = "exit0" /\ cmd[p].action = "ajouter"
    /\ Len(attendu) = 2
    /\ chargerAnnuaire(fichier) = <<attendu[2]>>
    /\ sauve = <<attendu[2]>>

====
